---- MODULE Spec2Model ----
(***************************************************************************)
(* State-machine model of the banking demo's Express server               *)
(* (src/unnamed/part_000): the authentication middleware, the login rate  *)
(* limiter, and the route handlers with their authorization rules.        *)
(*                                                                         *)
(* Time is counted in hours: the token lifetime ('1h') and the sweep      *)
(* interval (60 * 60 * 1000 ms) are both one unit.                        *)
(*                                                                         *)
(* The data-access module (db.js) is not part of the sources; its         *)
(* operations are modelled from the specification's data model (the db*   *)
(* operators below).                                                       *)
(***************************************************************************)
EXTENDS Integers, FiniteSets, Sequences, Bags, TLC

\* ------------------------------------------------------------- bounds
\* Login handlers that may be in flight (awaiting the store or bcrypt) at once.
MaxConc == 2
\* The users table hands out the ids 1 .. MaxUserId.
MaxUserId == 4
\* The transactions table hands out the ids 1 .. MaxTx.
MaxTx == 2
\* The wall clock runs from 0 to MaxTime hours.
MaxTime == 1
\* Wrong PINs are counted up to MaxWrongPins, one more than the login limit.
MaxWrongPins == 6

\* -------------------------------------------------- program constants
\* if (attempts >= 5)
MaxLoginAttempts == 5
\* jwt.sign(..., { expiresIn: '1h' })
ExpiresIn == 1

\* ---------------------------------------------------------- universes
Ips == {"10.0.0.1", "10.0.0.2"}

\* An absent cookie, header, body field or store row.
None == "none"

VARIABLES
  users,          \* the users table: id -> row
  nextUserId,     \* the id the users table hands out next
  settings,       \* the settings record
  transactions,   \* the transactions table: a set of rows
  nextTxId,       \* the id the transactions table hands out next
  avatarFiles,    \* Uploads/avatars on disk: file name -> content
  issued,         \* payloads the server has signed with JWT_SECRET
  now,            \* the wall clock, in hours
  loginAttempts,  \* the loginAttempts Map: address -> count (0: no entry)
  inflight,       \* login handlers suspended at an await: a bag of frames
  res,            \* the response sent last, with what its request did
  failedChecks,   \* per address: failed credential checks since its entry
                  \* was last cleared (history, not program state)
  proc,           \* the server process: its phase and its environment
  location,       \* the browser: window.location.pathname
  call,           \* the browser: the API client call settled last
  currentUser     \* the browser: AuthProvider's currentUser state

vars == <<users, nextUserId, settings, transactions, nextTxId, avatarFiles,
          issued, now, loginAttempts, inflight, res, failedChecks, proc,
          location, call, currentUser>>

\* The browser that runs the API client.
browser == <<location, call, currentUser>>

\* The data store and the upload directory.
store == <<users, nextUserId, settings, transactions, nextTxId, avatarFiles>>

\* ------------------------------------------------------------ the store
Active == "Active"
Inactive == "Inactive"

\* bcrypt: the store keeps the hash, and compare re-derives it.
bcryptHash(plain) == <<"$2b$", plain>>

\* A comparison that never matches.
bcryptCompareNever(plain, hash) == FALSE

bcryptCompare(plain, hash) == hash = bcryptHash(plain)

\* A users row. The seed rows are those of a database that already holds the
\* bootstrap administrator and two customers.
Row(username, email, password, is_admin) ==
  [username |-> username, email |-> email,
   password |-> bcryptHash(password), is_admin |-> is_admin, status |-> Active, balance |-> 0,
   avatar |-> None, pin |-> bcryptHash(None), last_login |-> 0]

NoRow == Row(None, None, None, FALSE)

AdminRow == Row("admin", "admin@example.com", "adminpw", TRUE)

SeedUsers ==
  (1 :> AdminRow)
    @@ (2 :> [Row("alice", "alice@x.io", "alicepw", FALSE) EXCEPT !.pin = bcryptHash("1234")])
    @@ (3 :> Row("bob", "bob@x.io", "bobpw12", FALSE))

DefaultSettings == [allowNewUsers |-> TRUE, maintenance |-> FALSE]

\* db.getUserByUsername: the id of the row with that username, 0 when none.
dbGetUserByUsername(username) ==
  IF \E i \in DOMAIN users : users[i].username = username
  THEN CHOOSE i \in DOMAIN users : users[i].username = username
  ELSE 0

\* db.updateUserLastLogin: stamps the row if it still exists.
dbUpdateUserLastLogin(id) ==
  IF id \in DOMAIN users
  THEN [users EXCEPT ![id].last_login = now]
  ELSE users

\* Uploads/avatars holds avatar-<id><ext>; a file's content is told apart by
\* who uploaded it (0: no such file).
UserIds == 1 .. MaxUserId
Exts == {".png"}
AvatarNames == UserIds \X Exts

\* ------------------------------------------------------------ tokens
\* A credential as a request carries it: nothing, a string that is no JWT, or
\* a JWT with its payload and whether its signature is the server's.
NoToken == [kind |-> "none", id |-> 0, username |-> None, isAdmin |-> FALSE,
            exp |-> 0, signed |-> FALSE]
Malformed == [NoToken EXCEPT !.kind = "malformed"]

\* A token signed with expiresIn: '2h'.
SignedAtTwoHours(id, row, t) ==
  [kind |-> "jwt", id |-> id, username |-> row.username,
   isAdmin |-> row.is_admin, exp |-> t + 2 * ExpiresIn, signed |-> TRUE]

\* The token a login of user id signs at time t.
SignedAt(id, row, t) ==
  [kind |-> "jwt", id |-> id, username |-> row.username,
   isAdmin |-> row.is_admin, exp |-> t + ExpiresIn, signed |-> TRUE]

\* jwt.sign with the id of the row inserted last in place of user.id.
jwtSignStale(id, row) == SignedAt(nextUserId - 1, row, now)

\* jwt.sign({ id, username, isAdmin }, JWT_SECRET, { expiresIn: '1h' })
jwtSign(id, row) == SignedAt(id, row, now)

\* The sessions of the seed users: the tokens their logins at time 0 were
\* issued. Tokens are stateless, so they outlive a restart of the process.
Session(id) == SignedAt(id, SeedUsers[id], 0)
OpenSessions == {Session(id) : id \in DOMAIN SeedUsers}

\* A token whose payload was edited to claim the admin flag: the signature
\* no longer matches.
Forged == [Session(2) EXCEPT !.isAdmin = TRUE, !.signed = FALSE]

\* ---------------------------------------------------------- responses
NoResponse ==
  [route |-> None, status |-> 0, message |-> None, ip |-> None,
   cookie |-> NoToken, header |-> NoToken, caller |-> NoToken, target |-> 0,
   ran |-> FALSE, touched |-> FALSE, userData |-> {}, txData |-> {},
   setCookie |-> NoToken, sawFive |-> FALSE, outage |-> FALSE,
   invalid |-> FALSE, duplicate |-> FALSE, value |-> 0,
   afterLogout |-> FALSE, at |-> 0, pin |-> None, wrongPins |-> 0,
   file |-> None, threw |-> FALSE, body |-> None, attempts |-> 0]

Reply(route, status, message) ==
  [NoResponse EXCEPT !.route = route, !.status = status, !.message = message,
                     !.at = now, !.wrongPins = res.wrongPins]

\* ------------------------------------------- the authentication middleware
\* jwt.decode in place of jwt.verify's expiry check: the signature alone.
jwtVerifySignature(token) ==
  IF token.kind # "jwt" \/ ~token.signed THEN "JsonWebTokenError" ELSE "ok"

\* jwt.verify(token, JWT_SECRET): the signature is checked before the expiry.
jwtVerify(token) ==
  IF token.kind # "jwt" \/ ~token.signed THEN "JsonWebTokenError"
  ELSE IF now >= token.exp THEN "TokenExpiredError"
  ELSE "ok"

\* const token = headerToken || cookieToken
SelectHeaderFirst(cookie, header) ==
  IF header.kind # "none" THEN header ELSE cookie

\* const token = cookieToken || headerToken
SelectToken(cookie, header) == IF cookie.kind # "none" THEN cookie ELSE header

\* authenticateToken without the branch on err.name.
authenticateTokenOneMessage(cookie, header) ==
  LET token == SelectToken(cookie, header)
  IN IF token.kind = "none"
     THEN [status |-> 401, message |-> "Access denied. No token provided.",
           user |-> NoToken]
     ELSE IF jwtVerify(token) # "ok"
     THEN [status |-> 403, message |-> "Invalid token.", user |-> NoToken]
     ELSE [status |-> 0, message |-> None, user |-> token]

\* authenticateToken: status 0 stands for next(), with req.user set.
authenticateToken(cookie, header) ==
  LET token == SelectToken(cookie, header)
      err == jwtVerify(token)
  IN IF token.kind = "none"
     THEN [status |-> 401, message |-> "Access denied. No token provided.",
           user |-> NoToken]
     ELSE IF err # "ok"
     THEN [status |-> 403,
           message |-> IF err = "TokenExpiredError"
                       THEN "Token expired. Please log in again."
                       ELSE "Invalid token.",
           user |-> NoToken]
     ELSE [status |-> 0, message |-> None, user |-> token]

\* ----------------------------------------------------------- the process
\* The process with its environment: down (never started), starting (the
\* module is loaded, startServer runs), listening, or exited. adminAtListen
\* remembers whether a user 'admin' with the admin flag was in the store when
\* app.listen was called (history, not program state).
Process(phase, secret, password) ==
  [phase |-> phase, JWT_SECRET |-> secret, ADMIN_PASSWORD |-> password,
   adminAtListen |-> FALSE]

\* A process started with its full environment over the seed store.
Listening == [Process("listening", TRUE, TRUE) EXCEPT !.adminAtListen = TRUE]

\* -------------------------------------------------------- the API client
\* No call settled yet.
NoCall ==
  [method |-> None, status |-> 0, shape |-> None, settled |-> None,
   error |-> None, turn |-> 0, value |-> FALSE]

\* validateStatus: (status) => status < 500
validateStatus(status) == status < 500

\* The rejection handler of the response interceptor: where the browser is
\* after it ran for a response of this status.
interceptor(status) ==
  IF status = 401 /\ location # "/login" THEN "/login" ELSE location

\* The bodies a response may carry: a user as { data: user }, as
\* { user: user } or bare, or { message } with an error status.
Shapes == {"data", "user", "bare"}
ErrorShape == "message"

\* The methods of the client that hand back a User, and two that do not.
UserMethods ==
  { "auth.login", "auth.getCurrentUser", "users.create(signup)",
    "users.create", "users.updateStatus", "users.updateBalance",
    "users.getById" }
ClientMethods == UserMethods \cup {"auth.logout", "users.getAll"}

MissingUser == "User data missing in response"

\* response.data?.user (auth.login also looks at response.data?.data?.user,
\* which a user wrapped once in data does not have).
HasUser(method, shape) == shape = "user"

\* The methods whose catch block throws a new Error with the server's
\* message or a fallback of their own.
Fallback(method) ==
  IF method = "auth.login" THEN "Login failed. Please try again."
  ELSE IF method \in {"users.create(signup)", "users.create"}
  THEN "Failed to create user"
  ELSE None

\* What the method's promise settles to once axios hands it the response.
Settle(method, status, shape) ==
  LET rejected == ~validateStatus(status)
      missing == method \in UserMethods /\ ~HasUser(method, shape)
      thrown == IF rejected THEN "server message" ELSE MissingUser
  IN [method |-> method, status |-> status, shape |-> shape,
      settled |-> IF rejected \/ missing THEN "rejected" ELSE "resolved",
      error |-> IF ~(rejected \/ missing) THEN None
                ELSE IF Fallback(method) = None THEN thrown
                ELSE IF rejected THEN "server message" ELSE Fallback(method),
      turn |-> 1 - call.turn, value |-> FALSE]

\* One call of a client method and the response axios received for it.
ClientCall(method, status, shape) ==
  /\ call' = Settle(method, status, shape)
  /\ location' = IF validateStatus(status) THEN location
                 ELSE interceptor(status)
  /\ UNCHANGED <<store, issued, now, loginAttempts, inflight, res,
                 failedChecks, proc, currentUser>>

\* The body GET /api/session sends: { data: { isLoggedIn: true } } with
\* 200, { message } from authenticateToken otherwise.
SessionBody(status) == IF status = 200 THEN "data" ELSE ErrorShape

\* response.data?.isLoggedIn || false, false from the catch block:
\* response.data is the body, so the flag is read at its top level.
isLoggedIn(status, shape) == validateStatus(status) /\ shape = "bare"

\* The user moves to another view.
Navigate(path) ==
  /\ location' = path
  /\ UNCHANGED <<store, issued, now, loginAttempts, inflight, res,
                 failedChecks, proc, call, currentUser>>

\* ------------------------------------------------------- AuthProvider
\* Each operation of the context is one call of the API client, here with
\* the response the server gave, and what the provider does once the call
\* has settled. who is the user the server's response describes.
Provider(method, status, shape, user, path) ==
  /\ call' = Settle(method, status, shape)
  /\ currentUser' = user
  /\ location' = IF validateStatus(status) THEN path ELSE interceptor(status)
  /\ UNCHANGED <<store, issued, now, loginAttempts, inflight, res,
                 failedChecks, proc>>

\* useEffect on mount: getCurrentUser, and setCurrentUser(null) if it throws.
FetchCurrentUser(who, status, shape) ==
  LET settled == Settle("auth.getCurrentUser", status, shape).settled
  IN Provider("auth.getCurrentUser", status, shape,
              IF settled = "resolved" THEN who ELSE None, location)

\* refreshUser: getCurrentUser, and a toast if it throws.
RefreshUser(who, status, shape) ==
  LET settled == Settle("auth.getCurrentUser", status, shape).settled
  IN Provider("auth.getCurrentUser", status, shape,
              IF settled = "resolved" THEN who ELSE currentUser, location)

\* login: setCurrentUser and navigate on success, a toast and a rethrow
\* otherwise.
AuthLogin(who, status, shape) ==
  LET settled == Settle("auth.login", status, shape).settled
  IN Provider("auth.login", status, shape,
              IF settled = "resolved" THEN who ELSE currentUser,
              IF settled # "resolved" THEN location
              ELSE IF who = "admin" THEN "/admin" ELSE "/dashboard")

\* logout: setCurrentUser(null) and navigate after services.auth.logout()
\* resolved; the catch block only shows a toast.
AuthLogout(status) ==
  LET settled == Settle("auth.logout", status, ErrorShape).settled
  IN Provider("auth.logout", status, ErrorShape,
              IF settled = "resolved" THEN None ELSE currentUser,
              IF settled = "resolved" THEN "/login" ELSE location)

\* ------------------------------------------------ requests and outcomes
\* The requests before this one, back to a POST /api/logout that was
\* answered 200, all carried this token: the client kept using a token it
\* had logged out with.
LoggedOut(token) ==
  /\ token # NoToken
  /\ \/ res.route = "POST /api/logout" /\ res.ran /\ res.caller = token
     \/ res.afterLogout /\ SelectToken(res.cookie, res.header) = token

\* The request as the response record remembers it.
Request(route, cookie, header, target) ==
  [Reply(route, 0, None)
     EXCEPT !.cookie = cookie, !.header = header, !.target = target,
            !.afterLogout = LoggedOut(SelectToken(cookie, header))]

\* What serving a request leaves behind: the response and the store.
\* The request after its validators ran: whether validationResult(req) holds
\* errors.
Validated(q, valid) == [q EXCEPT !.invalid = ~valid]

Outcome(r) ==
  [res |-> r, users |-> users, nextUserId |-> nextUserId,
   settings |-> settings, transactions |-> transactions,
   nextTxId |-> nextTxId, avatarFiles |-> avatarFiles]

\* The middleware answered; the handler never ran.
Denied(q, a) == Outcome([q EXCEPT !.status = a.status, !.message = a.message])

\* The handler ran as a.user and answered without reaching the store.
Answer(q, a, status, message) ==
  Outcome([q EXCEPT !.status = status, !.message = message,
                    !.caller = a.user, !.ran = TRUE])

\* The handler ran as a.user and answered after a store call.
Stored(q, a, status, message) ==
  Outcome([q EXCEPT !.status = status, !.message = message,
                    !.caller = a.user, !.ran = TRUE, !.touched = TRUE])

\* A handler without its catch block: the rejection goes unhandled and the
\* request is left without a response.
ThrewUncaught(q, a, message) ==
  Outcome([q EXCEPT !.caller = a.user, !.ran = TRUE, !.touched = TRUE,
                    !.outage = TRUE, !.threw = TRUE])

\* The catch block: a store call failed (with anything but a unique
\* violation), and the handler answers 500.
Threw(q, a, message) ==
  Outcome([q EXCEPT !.status = 500, !.message = message, !.caller = a.user,
                    !.ran = TRUE, !.touched = TRUE, !.outage = TRUE,
                    !.threw = TRUE])

\* The error-handling middleware registered last: what a middleware passed
\* to next(err) is answered here, and the handler never runs.
ErrorMiddleware(q, a) ==
  Outcome([q EXCEPT !.status = 500, !.caller = a.user,
                    !.message = "An unexpected error occurred"])

Serve(o) ==
  /\ proc.phase = "listening"
  /\ res' = o.res
  /\ users' = o.users
  /\ nextUserId' = o.nextUserId
  /\ settings' = o.settings
  /\ transactions' = o.transactions
  /\ nextTxId' = o.nextTxId
  /\ avatarFiles' = o.avatarFiles
  /\ UNCHANGED <<issued, now, loginAttempts, inflight, failedChecks, proc,
                 browser>>

\* A guard that only asks for a verified token.
IsAuthenticated(user) == user.kind = "jwt"

\* if (!req.user.isAdmin) return 403 'Admin access required'
IsAdmin(user) == user.isAdmin

\* A guard that forgets the owner.
IsAdminOnly(user, id) == user.isAdmin

\* !req.user.isAdmin && req.params.id !== req.user.id is the refusal.
IsSelfOrAdmin(user, id) == user.isAdmin \/ id = user.id

\* ------------------------------------------------- the data-access module
\* db.createUser raises the unique violation 23505 on a taken username or
\* email.
dbUniqueViolation(body) ==
  \E i \in DOMAIN users :
    users[i].username = body.username \/ users[i].email = body.email

\* db.createUser(body): the row takes the body's fields, is_admin included
\* (the bootstrap passes is_admin: true through the same call).
dbCreateUser(body) ==
  users @@ (nextUserId :>
              [Row(body.username, body.email, body.password, body.is_admin)
                 EXCEPT !.last_login = -1])

dbDeleteUser(id) == [i \in DOMAIN users \ {id} |-> users[i]]

dbUpdateUserStatus(id, status) ==
  IF id \in DOMAIN users THEN [users EXCEPT ![id].status = status] ELSE users

dbUpdateUserBalance(id, balance) ==
  IF id \in DOMAIN users THEN [users EXCEPT ![id].balance = balance] ELSE users

dbUpdateUserAvatar(id, avatar) ==
  IF id \in DOMAIN users THEN [users EXCEPT ![id].avatar = avatar] ELSE users

dbGetUserTransactions(id) == {t \in transactions : t.user_id = id}

dbCreateTransaction(body) ==
  [id |-> nextTxId, user_id |-> body.user_id, type |-> body.type,
   amount |-> body.amount, date_time |-> body.date_time]

\* ---------------------------------------------------------- validators
\* isLength({ min: 6 })
MinPasswordLength == 6

\* isEmail(), on the addresses the clients of this model send.
IsEmail(e) == e \notin {"", "not-an-email"}

\* The four checks of POST /api/signup and POST /api/users.
ValidUserBody(body) ==
  /\ body.full_name # ""
  /\ body.username # ""
  /\ IsEmail(body.email)
  /\ Len(body.password) >= MinPasswordLength

\* isIn(['Active', 'Inactive'])
ValidStatus(status) == status \in {Active, Inactive}

\* isFloat() without the minimum.
AnyBalance(balance) == TRUE

\* isFloat({ min: 0 })
ValidBalance(balance) == balance >= 0

TxTypes == {"Deposit", "Withdrawal", "Transfer", "Bill Pay"}

\* isISO8601(), on the dates the clients of this model send.
IsISO8601(d) == d \notin {"", "yesterday"}

\* The checks of POST /api/transactions without the one on the amount.
ValidTransactionBodyAnyAmount(body) ==
  /\ body.user_id # 0
  /\ body.type \in TxTypes
  /\ IsISO8601(body.date_time)

\* The four checks of POST /api/transactions; amounts are in cents
\* (isFloat({ min: 0.01 })), and 0 stands for an empty user_id.
ValidTransactionBody(body) ==
  /\ body.user_id # 0
  /\ body.type \in TxTypes
  /\ body.amount >= 1
  /\ IsISO8601(body.date_time)

\* The four checks of PATCH /api/settings.
ValidSettingsBody(body) ==
  /\ body.systemName # ""
  /\ body.maintenance \in BOOLEAN
  /\ body.allowNewUsers \in BOOLEAN
  /\ IsEmail(body.contactEmail)

\* ------------------------------------------------------ route handlers
\* A request that passes no middleware of its own.
Anonymous == [status |-> 0, message |-> None, user |-> NoToken]

Created(o, body) ==
  [o EXCEPT !.users = dbCreateUser(body), !.nextUserId = nextUserId + 1,
            !.res.target = nextUserId, !.res.userData = {nextUserId}]

\* A catch block without the branch on error.code.
CreateUserErrorUnmapped(q, a, dbOk) ==
  [Threw(q, a, "Server error creating user") EXCEPT !.res.outage = ~dbOk]

\* The catch block of the two routes that create users.
CreateUserError(q, a, dbOk) ==
  IF dbOk
  THEN [Stored(q, a, 400, "Username or email already exists")
          EXCEPT !.res.threw = TRUE]
  ELSE Threw(q, a, "Server error creating user")

\* POST /api/signup without the look at the settings.
PostSignupOpen(body, dbOk) ==
  LET q == [Validated(Request("POST /api/signup", NoToken, NoToken, 0),
                      ValidUserBody(body))
              EXCEPT !.duplicate = dbUniqueViolation(body)]
      a == Anonymous
  IN IF ~ValidUserBody(body) THEN Answer(q, a, 400, "Validation failed")
     ELSE IF ~dbOk \/ dbUniqueViolation(body) THEN CreateUserError(q, a, dbOk)
     ELSE Created(Stored(q, a, 201, None), body)

PostSignup(body, dbOk) ==
  LET q == [Validated(Request("POST /api/signup", NoToken, NoToken, 0),
                      ValidUserBody(body))
              EXCEPT !.duplicate = dbUniqueViolation(body)]
      a == Anonymous
  IN IF ~ValidUserBody(body) THEN Answer(q, a, 400, "Validation failed")
     ELSE IF ~dbOk THEN CreateUserError(q, a, dbOk)
     ELSE IF settings.allowNewUsers = FALSE
     THEN Stored(q, a, 403, "Registrations are disabled.")
     ELSE IF dbUniqueViolation(body) THEN CreateUserError(q, a, dbOk)
     ELSE Created(Stored(q, a, 201, None), body)

PostUsers(cookie, header, body, dbOk) ==
  LET q == [Validated(Request("POST /api/users", cookie, header, 0),
                      ValidUserBody(body))
              EXCEPT !.duplicate = dbUniqueViolation(body)]
      a == authenticateToken(cookie, header)
  IN IF a.status # 0 THEN Denied(q, a)
     ELSE IF ~IsAdmin(a.user) THEN Answer(q, a, 403, "Admin access required")
     ELSE IF ~ValidUserBody(body) THEN Answer(q, a, 400, "Validation failed")
     ELSE IF ~dbOk \/ dbUniqueViolation(body) THEN CreateUserError(q, a, dbOk)
     ELSE Created(Stored(q, a, 201, None), body)

\* POST /api/users of the minimal server: no middleware and no validators in
\* front of the handler; whatever db.createUser throws is answered 400 with
\* the error's own message.
MinimalPostUsers(body, dbOk) ==
  LET q == [Validated(Request("POST /api/users", NoToken, NoToken, 0),
                      ValidUserBody(body))
              EXCEPT !.duplicate = dbUniqueViolation(body)]
      a == Anonymous
  IN IF ~dbOk
     THEN [Threw(q, a, "error.message") EXCEPT !.res.status = 400]
     ELSE IF dbUniqueViolation(body)
     THEN [Stored(q, a, 400, "error.message") EXCEPT !.res.threw = TRUE]
     ELSE Created(Stored(q, a, 201, None), body)

VERIFY_PIN == "POST /api/users/:userId/verify-pin"

\* POST /api/users/:id/verify-pin of the minimal server: no middleware in
\* front of the handler; a wrong PIN is answered 401, the right one 200.
MinimalPostVerifyPin(id, pin, dbOk) ==
  LET q == [Request(VERIFY_PIN, NoToken, NoToken, id) EXCEPT !.pin = pin]
      a == Anonymous
  IN IF ~dbOk THEN Threw(q, a, "Server error verifying PIN")
     ELSE IF id \notin DOMAIN users \/ users[id].pin = bcryptHash(None)
     THEN Stored(q, a, 404, "User or PIN not found")
     ELSE IF bcryptCompare(pin, users[id].pin)
     THEN Stored(q, a, 200, "success: true")
     ELSE Stored(q, a, 401, "Incorrect PIN")

\* The response records the PIN that was sent and how many PINs have been
\* answered valid: false so far (counted up to MaxWrongPins).
PostVerifyPin(cookie, header, userId, pin, dbOk) ==
  LET q == [Request(VERIFY_PIN, cookie, header, userId) EXCEPT !.pin = pin]
      a == authenticateToken(cookie, header)
  IN IF a.status # 0 THEN Denied(q, a)
     ELSE IF pin = None
     THEN Answer(q, a, 400, "PIN is required and must be a string.")
     ELSE IF ~dbOk THEN Threw(q, a, "Server error verifying PIN")
     ELSE IF userId \notin DOMAIN users \/ users[userId].pin = bcryptHash(None)
     THEN Stored(q, a, 404, "User or PIN not found.")
     ELSE IF bcryptCompare(pin, users[userId].pin)
     THEN Stored(q, a, 200, "valid: true")
     ELSE Stored([q EXCEPT !.wrongPins = IF @ < MaxWrongPins THEN @ + 1 ELSE @],
                 a, 200, "valid: false")

GetUsers(cookie, header, dbOk) ==
  LET q == Request("GET /api/users", cookie, header, 0)
      a == authenticateToken(cookie, header)
  IN IF a.status # 0 THEN Denied(q, a)
     ELSE IF ~IsAdmin(a.user) THEN Answer(q, a, 403, "Admin access required")
     ELSE IF ~dbOk THEN Threw(q, a, "Server error fetching users")
     ELSE [Stored(q, a, 200, None) EXCEPT !.res.userData = DOMAIN users]

DeleteUser(cookie, header, id, dbOk) ==
  LET q == Request("DELETE /api/users/:id", cookie, header, id)
      a == authenticateToken(cookie, header)
  IN IF a.status # 0 THEN Denied(q, a)
     ELSE IF ~IsAdmin(a.user) THEN Answer(q, a, 403, "Admin access required")
     ELSE IF ~dbOk THEN Threw(q, a, "Server error deleting user")
     ELSE [Stored(q, a, 200, "User deleted successfully")
             EXCEPT !.users = dbDeleteUser(id)]

PatchStatus(cookie, header, id, status, dbOk) ==
  LET q == Validated(Request("PATCH /api/users/:id/status", cookie, header,
                             id), ValidStatus(status))
      a == authenticateToken(cookie, header)
  IN IF a.status # 0 THEN Denied(q, a)
     ELSE IF ~IsAdmin(a.user) THEN Answer(q, a, 403, "Admin access required")
     ELSE IF ~ValidStatus(status) THEN Answer(q, a, 400, "Validation failed")
     ELSE IF ~dbOk THEN Threw(q, a, "Server error updating user status")
     ELSE [Stored(q, a, 200, None)
             EXCEPT !.users = dbUpdateUserStatus(id, status),
                    !.res.userData = {id} \cap DOMAIN users]

PatchBalance(cookie, header, id, balance, dbOk) ==
  LET q == [Validated(Request("PATCH /api/users/:id/balance", cookie, header,
                              id), ValidBalance(balance))
              EXCEPT !.value = balance]
      a == authenticateToken(cookie, header)
  IN IF a.status # 0 THEN Denied(q, a)
     ELSE IF ~IsAdmin(a.user) THEN Answer(q, a, 403, "Admin access required")
     ELSE IF ~ValidBalance(balance) THEN Answer(q, a, 400, "Validation failed")
     ELSE IF ~dbOk THEN Threw(q, a, "Server error updating user balance")
     ELSE [Stored(q, a, 200, None)
             EXCEPT !.users = dbUpdateUserBalance(id, balance),
                    !.res.userData = {id} \cap DOMAIN users]

PostLogout(cookie, header) ==
  LET q == Request("POST /api/logout", cookie, header, 0)
      a == authenticateToken(cookie, header)
  IN IF a.status # 0 THEN Denied(q, a)
     ELSE Answer(q, a, 200, "Logged out successfully")

GetMe(cookie, header, dbOk) ==
  LET q == Request("GET /api/me", cookie, header, 0)
      a == authenticateToken(cookie, header)
  IN IF a.status # 0 THEN Denied(q, a)
     ELSE IF ~dbOk THEN Threw(q, a, "Server error fetching user data")
     ELSE IF a.user.id \notin DOMAIN users
     THEN Stored(q, a, 404, "User not found")
     ELSE [Stored(q, a, 200, None) EXCEPT !.res.userData = {a.user.id}]

GetSession(cookie, header) ==
  LET q == Request("GET /api/session", cookie, header, 0)
      a == authenticateToken(cookie, header)
  IN IF a.status # 0 THEN Denied(q, a)
     ELSE Answer(q, a, 200, None)

PostTransactions(cookie, header, body, dbOk) ==
  LET q == [Validated(Request("POST /api/transactions", cookie, header,
                              body.user_id), ValidTransactionBody(body))
              EXCEPT !.body = body]
      a == authenticateToken(cookie, header)
      row == dbCreateTransaction(body)
  IN IF a.status # 0 THEN Denied(q, a)
     ELSE IF ~ValidTransactionBody(body)
     THEN Answer(q, a, 400, "Validation failed")
     ELSE IF ~IsAdmin(a.user) /\ body.user_id # a.user.id
     THEN Answer(q, a, 403,
                 "You can only create transactions for your own account")
     ELSE IF ~dbOk THEN Threw(q, a, "Server error creating transaction")
     ELSE [Stored(q, a, 201, None)
             EXCEPT !.transactions = transactions \cup {row},
                    !.nextTxId = nextTxId + 1, !.res.txData = {row}]

GetTransactions(cookie, header, dbOk) ==
  LET q == Request("GET /api/transactions", cookie, header, 0)
      a == authenticateToken(cookie, header)
  IN IF a.status # 0 THEN Denied(q, a)
     ELSE IF ~dbOk THEN Threw(q, a, "Server error fetching transactions")
     ELSE [Stored(q, a, 200, None)
             EXCEPT !.res.txData = IF IsAdmin(a.user) THEN transactions
                                   ELSE dbGetUserTransactions(a.user.id)]

DeleteTransaction(cookie, header, id, dbOk) ==
  LET q == Request("DELETE /api/transactions/:id", cookie, header, id)
      a == authenticateToken(cookie, header)
  IN IF a.status # 0 THEN Denied(q, a)
     ELSE IF ~IsAdmin(a.user) THEN Answer(q, a, 403, "Admin access required")
     ELSE IF ~dbOk THEN Threw(q, a, "Server error deleting transaction")
     ELSE [Stored(q, a, 200, None)
             EXCEPT !.transactions = {t \in transactions : t.id # id}]

GetSettings(cookie, header, dbOk) ==
  LET q == Request("GET /api/settings", cookie, header, 0)
      a == authenticateToken(cookie, header)
  IN IF a.status # 0 THEN Denied(q, a)
     ELSE IF ~IsAdmin(a.user) THEN Answer(q, a, 403, "Admin access required")
     ELSE IF ~dbOk THEN Threw(q, a, "Server error fetching settings")
     ELSE Stored(q, a, 200, None)

PatchSettings(cookie, header, body, dbOk) ==
  LET q == Validated(Request("PATCH /api/settings", cookie, header, 0),
                     ValidSettingsBody(body))
      a == authenticateToken(cookie, header)
  IN IF a.status # 0 THEN Denied(q, a)
     ELSE IF ~IsAdmin(a.user) THEN Answer(q, a, 403, "Admin access required")
     ELSE IF ~ValidSettingsBody(body)
     THEN Answer(q, a, 400, "Validation failed")
     ELSE IF ~dbOk THEN Threw(q, a, "Server error updating settings")
     ELSE [Stored(q, a, 200, None)
             EXCEPT !.settings = [allowNewUsers |-> body.allowNewUsers,
                                  maintenance |-> body.maintenance]]

GetUser(cookie, header, id, dbOk) ==
  LET q == Request("GET /api/users/:id", cookie, header, id)
      a == authenticateToken(cookie, header)
  IN IF a.status # 0 THEN Denied(q, a)
     ELSE IF ~IsSelfOrAdmin(a.user, id)
     THEN Answer(q, a, 403, "You can only access your own user details")
     ELSE IF ~dbOk THEN Threw(q, a, "Server error fetching user")
     ELSE IF id \notin DOMAIN users THEN Stored(q, a, 404, "User not found")
     ELSE [Stored(q, a, 200, None) EXCEPT !.res.userData = {id}]

GetUserTransactions(cookie, header, userId, dbOk) ==
  LET q == Request("GET /api/users/:userId/transactions", cookie, header, userId)
      a == authenticateToken(cookie, header)
  IN IF a.status # 0 THEN Denied(q, a)
     ELSE IF ~IsSelfOrAdmin(a.user, userId)
     THEN Answer(q, a, 403, "You can only access your own transactions")
     ELSE IF ~dbOk THEN Threw(q, a, "Server error fetching transactions")
     ELSE [Stored(q, a, 200, None)
             EXCEPT !.res.txData = dbGetUserTransactions(userId)]

\* What the multipart body of an avatar request may hold.
NoFile == "no file"
TextFile == ".txt"
BigFile == ".png over 2 MB"
Uploads == {NoFile, TextFile, BigFile} \cup Exts

\* upload.single('avatar'): the fileFilter rejects what is no JPEG or PNG
\* with an error, and so does the fileSize limit what is larger than 2 MB
\* (the part already written is removed); an accepted file is on disk, as
\* avatar-<:id><ext>, when the handler starts.
Uploaded(user, id, file) ==
  IF file \in Exts
  THEN [avatarFiles EXCEPT ![<<id, file>>] = user.id]
  ELSE avatarFiles

PatchAvatar(cookie, header, id, file, dbOk) ==
  LET q == [Request("PATCH /api/users/:id/avatar", cookie, header, id)
              EXCEPT !.file = file]
      a == authenticateToken(cookie, header)
      disk == Uploaded(a.user, id, file)
  IN IF a.status # 0 THEN Denied(q, a)
     ELSE IF file \in {TextFile, BigFile} THEN ErrorMiddleware(q, a)
     ELSE IF ~IsSelfOrAdmin(a.user, id)
     THEN [Answer(q, a, 403, "You can only update your own avatar")
             EXCEPT !.avatarFiles = disk]
     ELSE IF file = NoFile
     THEN Answer(q, a, 400, "Avatar file is required")
     ELSE IF ~dbOk
     THEN [Threw(q, a, "Server error updating avatar")
             EXCEPT !.avatarFiles = disk]
     ELSE [Stored(q, a, 200, "Avatar updated successfully")
             EXCEPT !.avatarFiles = disk,
                    !.users = dbUpdateUserAvatar(id, file)]

DeleteAvatar(cookie, header, id, dbOk) ==
  LET q == Request("DELETE /api/users/:id/avatar", cookie, header, id)
      a == authenticateToken(cookie, header)
  IN IF a.status # 0 THEN Denied(q, a)
     ELSE IF ~IsSelfOrAdmin(a.user, id)
     THEN Answer(q, a, 403, "You can only delete your own avatar")
     ELSE IF ~dbOk THEN Threw(q, a, "Server error deleting avatar")
     ELSE [Stored(q, a, 200, "Avatar deleted successfully")
             EXCEPT !.users = dbUpdateUserAvatar(id, None)]

\* The wall clock advances.
Tick ==
  /\ now < MaxTime
  /\ now' = now + 1
  /\ UNCHANGED <<store, issued, loginAttempts, inflight, res, failedChecks,
                 proc, browser>>

\* ------------------------------------------------- POST /api/login
LOGIN == "POST /api/login"

\* What a client may send as username and password.
LoginBodies ==
  { <<"", "adminpw">>, <<"admin", "">>, <<"admin", "adminpw">>,
    <<"admin", "wrongpw">>, <<"nobody", "wrongpw">> }

\* A handler's frame while it is suspended at an await.
Frame(ip, username, password, attempts, sawFive) ==
  [ip |-> ip, username |-> username, password |-> password,
   attempts |-> attempts, pc |-> "getUserByUsername", uid |-> 0,
   user |-> NoRow, sawFive |-> sawFive]

LoginReply(f, status, message) ==
  [Reply(LOGIN, status, message) EXCEPT !.ip = f.ip, !.sawFive = f.sawFive,
                                        !.ran = TRUE, !.attempts = f.attempts]

Suspend(f) == inflight (+) SetToBag({f})
Resume(f) == inflight (-) SetToBag({f})

\* The synchronous head of the handler: the attempt check, the validation
\* result, and the call of db.getUserByUsername, at which it suspends.
LoginStart(ip, username, password) ==
  LET attempts == loginAttempts[ip]
      f == Frame(ip, username, password, attempts,
                 failedChecks[ip] >= MaxLoginAttempts)
  IN /\ proc.phase = "listening"
     /\ BagCardinality(inflight) < MaxConc
     /\ IF attempts >= MaxLoginAttempts
        THEN /\ res' = LoginReply(f, 429,
                         "Too many login attempts. Please try again later.")
             /\ UNCHANGED inflight
        ELSE IF username = "" \/ password = ""
        THEN /\ res' = LoginReply(f, 400, "Validation failed")
             /\ UNCHANGED inflight
        ELSE /\ inflight' = Suspend(f)
             /\ UNCHANGED res
     /\ UNCHANGED <<store, issued, now, loginAttempts, failedChecks, proc,
                    browser>>

\* A catch block that counts the failure against the address.
LoginThrowCounted(f) ==
  /\ BagIn(f, inflight)
  /\ f.pc \in {"getUserByUsername", "updateUserLastLogin"}
  /\ inflight' = Resume(f)
  /\ loginAttempts' = [loginAttempts EXCEPT ![f.ip] = f.attempts + 1]
  /\ res' = [LoginReply(f, 500, "Server error during login")
               EXCEPT !.touched = TRUE, !.outage = TRUE, !.threw = TRUE]
  /\ UNCHANGED <<store, issued, now, failedChecks, proc, browser>>

\* The catch block: the awaited store call threw.
LoginThrow(f) ==
  /\ BagIn(f, inflight)
  /\ f.pc \in {"getUserByUsername", "updateUserLastLogin"}
  /\ inflight' = Resume(f)
  /\ res' = [LoginReply(f, 500, "Server error during login")
               EXCEPT !.touched = TRUE, !.outage = TRUE, !.threw = TRUE]
  /\ UNCHANGED <<store, issued, now, loginAttempts, failedChecks, proc,
                 browser>>

\* A login that arrives while no other login is in flight.
LoginStartAlone(ip, username, password) ==
  /\ inflight = EmptyBag
  /\ LoginStart(ip, username, password)

\* The history counter stops counting one past the limit ("more than five").
Tally(n) == IF n > MaxLoginAttempts THEN n ELSE n + 1

\* loginAttempts.set(ip, attempts + 1) and the 401.
LoginFail(f, message) ==
  /\ loginAttempts' = [loginAttempts EXCEPT ![f.ip] = f.attempts + 1]
  /\ failedChecks' = [failedChecks EXCEPT ![f.ip] = Tally(@)]
  /\ inflight' = Resume(f)
  /\ res' = [LoginReply(f, 401, message) EXCEPT !.touched = TRUE]

\* db.getUserByUsername resolved: unknown user, inactive account, or on to
\* bcrypt.compare.
LoginGotUser(f) ==
  LET uid == dbGetUserByUsername(f.username) IN
  /\ BagIn(f, inflight)
  /\ f.pc = "getUserByUsername"
  /\ IF uid = 0
     THEN LoginFail(f, "User not found. Please check your username.")
     ELSE IF users[uid].status # Active
     THEN /\ inflight' = Resume(f)
          /\ res' = [LoginReply(f, 403,
                       "Your account is inactive. Please contact support.")
                       EXCEPT !.touched = TRUE, !.target = uid]
          /\ UNCHANGED <<loginAttempts, failedChecks>>
     ELSE /\ inflight' = Resume(f) (+) SetToBag({
                 [f EXCEPT !.pc = "compare", !.uid = uid, !.user = users[uid]]})
          /\ UNCHANGED <<res, loginAttempts, failedChecks>>
  /\ UNCHANGED <<store, issued, now, proc, browser>>

\* bcrypt.compare resolved: a wrong password, or loginAttempts.delete(ip)
\* and on to db.updateUserLastLogin.
LoginCompared(f) ==
  /\ BagIn(f, inflight)
  /\ f.pc = "compare"
  /\ IF ~bcryptCompare(f.password, f.user.password)
     THEN LoginFail(f, "Incorrect password. Please try again.")
     ELSE /\ loginAttempts' = [loginAttempts EXCEPT ![f.ip] = 0]
          /\ failedChecks' = [failedChecks EXCEPT ![f.ip] = 0]
          /\ inflight' = Resume(f) (+) SetToBag({
                 [f EXCEPT !.pc = "updateUserLastLogin"]})
          /\ UNCHANGED res
  /\ UNCHANGED <<store, issued, now, proc, browser>>

\* db.updateUserLastLogin resolved: the token is signed and set as a cookie.
LoginFinish(f) ==
  LET token == jwtSign(f.uid, f.user) IN
  /\ BagIn(f, inflight)
  /\ f.pc = "updateUserLastLogin"
  /\ users' = dbUpdateUserLastLogin(f.uid)
  /\ issued' = issued \cup {token}
  /\ inflight' = Resume(f)
  /\ res' = [LoginReply(f, 200, None)
               EXCEPT !.touched = TRUE, !.target = f.uid,
                      !.userData = {f.uid}, !.setCookie = token]
  /\ UNCHANGED <<nextUserId, settings, transactions, nextTxId, avatarFiles,
                 now, loginAttempts, failedChecks, proc, browser>>

\* A sweep that spares the entries at the limit.
SweepBelowLimit ==
  /\ loginAttempts' = [ip \in Ips |-> IF loginAttempts[ip] >= MaxLoginAttempts
                                      THEN loginAttempts[ip] ELSE 0]
  /\ failedChecks' = [ip \in Ips |-> IF loginAttempts[ip] >= MaxLoginAttempts
                                     THEN failedChecks[ip] ELSE 0]
  /\ UNCHANGED <<store, issued, now, inflight, res, proc, browser>>

\* setInterval(() => loginAttempts.clear(), 60 * 60 * 1000)
Sweep ==
  /\ loginAttempts' = [ip \in Ips |-> 0]
  /\ failedChecks' = [ip \in Ips |-> 0]
  /\ UNCHANGED <<store, issued, now, inflight, res, proc, browser>>

\* ------------------------------------------------------------ startup
\* The body startServer hands to db.createUser.
BootstrapAdmin ==
  [full_name |-> "System Administrator", username |-> "admin",
   email |-> "admin@example.com", password |-> "adminpw", is_admin |-> TRUE]

\* A user 'admin' that carries the administrator flag.
HasAdmin(table) ==
  \E i \in DOMAIN table : table[i].username = "admin" /\ table[i].is_admin

\* node server.js, with or without JWT_SECRET and ADMIN_PASSWORD in the
\* environment: a new process, whose memory (the loginAttempts map, the
\* handlers in flight) is empty. Without JWT_SECRET the module exits while
\* it loads; otherwise startServer() is called.
Launch(secret, password) ==
  /\ proc.phase \in {"down", "listening", "exited"}
  /\ proc' = Process(IF secret THEN "starting" ELSE "exited", secret, password)
  /\ loginAttempts' = [ip \in Ips |-> 0]
  /\ failedChecks' = [ip \in Ips |-> 0]
  /\ inflight' = EmptyBag
  /\ UNCHANGED <<store, issued, now, res, browser>>

\* startServer(): the database is initialized and probed, the user 'admin' is
\* looked up by name and created when missing, then app.listen. Anything
\* thrown on the way (the database is down, the administrator's e-mail is
\* taken) ends in process.exit(1).
StartServer(dbOk) ==
  LET missing == dbGetUserByUsername("admin") = 0
      exits == \/ ~dbOk
               \/ missing /\ ~proc.ADMIN_PASSWORD
               \/ missing /\ dbUniqueViolation(BootstrapAdmin)
      table == IF missing THEN dbCreateUser(BootstrapAdmin) ELSE users
  IN /\ proc.phase = "starting"
     /\ missing => nextUserId <= MaxUserId
     /\ IF exits
        THEN /\ proc' = [proc EXCEPT !.phase = "exited"]
             /\ UNCHANGED <<users, nextUserId>>
        ELSE /\ proc' = [proc EXCEPT !.phase = "listening",
                                      !.adminAtListen = HasAdmin(table)]
             /\ users' = table
             /\ nextUserId' = IF missing THEN nextUserId + 1 ELSE nextUserId
     /\ UNCHANGED <<settings, transactions, nextTxId, avatarFiles, issued, now,
                    loginAttempts, inflight, res, failedChecks, browser>>

\* --------------------------------------------------- specifications
\* The process after construction: no login attempt counted, no handler in
\* flight, nothing answered yet.
InitProcess ==
  /\ loginAttempts = [ip \in Ips |-> 0]
  /\ inflight = EmptyBag
  /\ res = NoResponse
  /\ failedChecks = [ip \in Ips |-> 0]
  /\ proc = Listening
  /\ location = "/"
  /\ call = NoCall
  /\ currentUser = None

\* A database that holds the seed users, as startServer finds it on a restart.
InitStore ==
  /\ users = SeedUsers
  /\ nextUserId = 4
  /\ settings = DefaultSettings
  /\ transactions = {}
  /\ nextTxId = 1
  /\ avatarFiles = [n \in AvatarNames |-> 0]

Init == InitStore /\ InitProcess /\ issued = {} /\ now = 0

\* The same, with the seed users' sessions open.
InitSessions == InitStore /\ InitProcess /\ issued = OpenSessions /\ now = 0

\* The login limiter under concurrent requests. The handlers of one address
\* race each other: the entries of different addresses are independent keys
\* of the map, and a second racing address only squares the state space.
RaceIps == {"10.0.0.1"}

NextLogin ==
  \/ \E ip \in RaceIps, b \in LoginBodies : LoginStart(ip, b[1], b[2])
  \/ \E f \in BagToSet(inflight) : LoginThrow(f)
  \/ \E f \in BagToSet(inflight) : LoginGotUser(f)
  \/ \E f \in BagToSet(inflight) : LoginCompared(f)
  \/ \E f \in BagToSet(inflight) : LoginFinish(f)
  \/ Sweep

SpecLogin == Init /\ [][NextLogin]_vars

\* The tables stay within the ids of the model.
InBounds(o) == o.nextUserId <= MaxUserId + 1 /\ o.nextTxId <= MaxTx + 1

Do(o) == InBounds(o) /\ Serve(o)

\* The self-or-admin routes, called without a token, by a customer and by
\* the administrator, on that customer's resources and on another
\* customer's, over a store that may fail.
Cookies == {NoToken, Session(1), Session(2)}
Targets == {2, 3}

OwnTransaction(user_id) ==
  [user_id |-> user_id, type |-> "Deposit", amount |-> 100,
   date_time |-> "2024-05-01T10:00:00Z"]

TransactionBodies ==
  {OwnTransaction(u) : u \in Targets}
    \cup {[OwnTransaction(u) EXCEPT !.amount = 0] : u \in Targets}

NextAccess ==
  \/ \E c \in Cookies, id \in Targets, ok \in BOOLEAN :
       Do(GetUser(c, NoToken, id, ok))
  \/ \E c \in Cookies, id \in Targets, ok \in BOOLEAN :
       Do(GetUserTransactions(c, NoToken, id, ok))
  \/ \E c \in Cookies, id \in Targets, file \in Uploads, ok \in BOOLEAN :
       Do(PatchAvatar(c, NoToken, id, file, ok))
  \/ \E c \in Cookies, id \in Targets, ok \in BOOLEAN :
       Do(DeleteAvatar(c, NoToken, id, ok))
  \/ \E c \in Cookies, body \in TransactionBodies, ok \in BOOLEAN :
       Do(PostTransactions(c, NoToken, body, ok))
  \/ \E c \in Cookies, ok \in BOOLEAN :
       Do(GetTransactions(c, NoToken, ok))

SpecAccess == InitSessions /\ [][NextAccess]_vars

\* Every route registered behind authenticateToken, called with each way of
\* carrying a credential, while the clock runs past the sessions' expiry.
Credentials == {NoToken, Malformed, Forged, Session(1), Session(2)}

Carried ==
  {<<c, NoToken>> : c \in Credentials}
    \cup {<<NoToken, h>> : h \in Credentials}
    \cup {<<Malformed, Session(1)>>, <<Session(2), Session(1)>>}

NewUser(username) ==
  [full_name |-> "New User", username |-> username,
   email |-> username \o "@x.io", password |-> "secret1", is_admin |-> FALSE]

NewSettings(allowNewUsers) ==
  [systemName |-> "Bank", maintenance |-> FALSE,
   allowNewUsers |-> allowNewUsers, contactEmail |-> "ops@x.io"]

NextAuth ==
  \/ \E k \in Carried : Do(PostUsers(k[1], k[2], NewUser("alice"), TRUE))
  \/ \E k \in Carried : Do(PostVerifyPin(k[1], k[2], 2, "1234", TRUE))
  \/ \E k \in Carried : Do(GetUsers(k[1], k[2], TRUE))
  \/ \E k \in Carried : Do(DeleteUser(k[1], k[2], 3, TRUE))
  \/ \E k \in Carried : Do(PatchStatus(k[1], k[2], 2, Active, TRUE))
  \/ \E k \in Carried : Do(PatchBalance(k[1], k[2], 2, 50, TRUE))
  \/ \E k \in Carried : Do(PostLogout(k[1], k[2]))
  \/ \E k \in Carried : Do(GetMe(k[1], k[2], TRUE))
  \/ \E k \in Carried : Do(GetSession(k[1], k[2]))
  \/ \E k \in Carried :
       Do(PostTransactions(k[1], k[2], [OwnTransaction(2) EXCEPT !.amount = 0],
                           TRUE))
  \/ \E k \in Carried : Do(GetTransactions(k[1], k[2], TRUE))
  \/ \E k \in Carried : Do(DeleteTransaction(k[1], k[2], 1, TRUE))
  \/ \E k \in Carried : Do(GetSettings(k[1], k[2], TRUE))
  \/ \E k \in Carried : Do(PatchSettings(k[1], k[2], NewSettings(FALSE), TRUE))
  \/ \E k \in Carried : Do(GetUser(k[1], k[2], 2, TRUE))
  \/ \E k \in Carried : Do(GetUserTransactions(k[1], k[2], 2, TRUE))
  \/ \E k \in Carried : Do(PatchAvatar(k[1], k[2], 2, NoFile, TRUE))
  \/ \E k \in Carried : Do(DeleteAvatar(k[1], k[2], 2, TRUE))
  \/ Tick

SpecAuth == InitSessions /\ [][NextAuth]_vars

\* The routes that change a user's status or balance, the settings, or
\* remove a user or a transaction, called by the administrator, by a
\* customer and without a token, next to the customers' own writes.
Statuses == {Active, Inactive, "Frozen"}
Balances == {-5, 0, 50}

NextAdmin ==
  \/ \E c \in Cookies, id \in Targets, ok \in BOOLEAN :
       Do(DeleteUser(c, NoToken, id, ok))
  \/ \E c \in Cookies, id \in Targets, status \in Statuses, ok \in BOOLEAN :
       Do(PatchStatus(c, NoToken, id, status, ok))
  \/ \E c \in Cookies, id \in Targets, balance \in Balances, ok \in BOOLEAN :
       Do(PatchBalance(c, NoToken, id, balance, ok))
  \/ \E c \in Cookies, id \in 1 .. MaxTx, ok \in BOOLEAN :
       Do(DeleteTransaction(c, NoToken, id, ok))
  \/ \E c \in Cookies, allow \in BOOLEAN, ok \in BOOLEAN :
       Do(PatchSettings(c, NoToken, NewSettings(allow), ok))
  \/ \E c \in Cookies, ok \in BOOLEAN :
       Do(PostTransactions(c, NoToken, OwnTransaction(2), ok))

SpecAdmin == InitSessions /\ [][NextAdmin]_vars

\* The two routes that create users, with the registration switch.
Usernames == {"", "admin", "carol", "dave"}
Emails == {"not-an-email", "admin@example.com", "carol@x.io", "dave@x.io"}
Passwords == {"short", "secret1"}

UserBodies ==
  [full_name : {"New User"}, username : Usernames, email : Emails,
   password : Passwords, is_admin : {FALSE}]

NextSignup ==
  \/ \E body \in UserBodies, ok \in BOOLEAN : Do(PostSignup(body, ok))
  \/ \E c \in Cookies, body \in UserBodies, ok \in BOOLEAN :
       Do(PostUsers(c, NoToken, body, ok))
  \/ \E c \in Cookies, allow \in BOOLEAN, ok \in BOOLEAN :
       Do(PatchSettings(c, NoToken, NewSettings(allow), ok))

SpecSignup == InitSessions /\ [][NextSignup]_vars

\* Sessions from login to expiry: customers and the administrator log in,
\* read their profile with the cookie they were issued, log out, and keep
\* using the token, while the administrator changes a customer's status.
SessionBodies == { <<"admin", "adminpw">>, <<"alice", "alicepw">> }

Jar == issued \cup {NoToken}

NextSession ==
  \/ \E b \in SessionBodies : LoginStartAlone("10.0.0.1", b[1], b[2])
  \/ \E f \in BagToSet(inflight) : LoginThrow(f)
  \/ \E f \in BagToSet(inflight) : LoginGotUser(f)
  \/ \E f \in BagToSet(inflight) : LoginCompared(f)
  \/ \E f \in BagToSet(inflight) : LoginFinish(f)
  \/ \E c \in Jar : Do(GetMe(c, NoToken, TRUE))
  \/ \E c \in Jar : Do(PostLogout(c, NoToken))
  \/ \E c \in Jar, status \in {Active, Inactive} :
       Do(PatchStatus(c, NoToken, 2, status, TRUE))
  \/ Tick

SpecSession == InitSessions /\ [][NextSession]_vars

\* The API client in the browser, receiving the responses a server may send.
Successes == {200, 201}
Failures == {400, 401, 403, 404, 500}
Paths == {"/", "/login", "/dashboard"}

NextClient ==
  \/ \E m \in ClientMethods, status \in Successes, shape \in Shapes :
       ClientCall(m, status, shape)
  \/ \E m \in ClientMethods, status \in Failures :
       ClientCall(m, status, ErrorShape)
  \/ \E path \in Paths : Navigate(path)

SpecClient == Init /\ [][NextClient]_vars

\* The auth context in the browser: the provider mounts, the user logs in,
\* refreshes and logs out, against a server that answers each call with a
\* success, with a refusal or with a failure.
Visitors == {"admin", "alice"}

NextProvider ==
  \/ \E who \in Visitors, status \in {200, 401, 500}, shape \in Shapes :
       FetchCurrentUser(who, status, shape)
  \/ \E who \in Visitors, status \in {200, 401, 500}, shape \in Shapes :
       RefreshUser(who, status, shape)
  \/ \E who \in Visitors, status \in {200, 401, 429, 500}, shape \in Shapes :
       AuthLogin(who, status, shape)
  \/ \E status \in {200, 401, 403, 500} : AuthLogout(status)
  \/ \E path \in Paths : Navigate(path)

SpecProvider == Init /\ [][NextProvider]_vars

\* PIN verification next to the login limiter: one address fails its logins
\* one at a time while PINs, right and wrong, are sent for a user that has a
\* PIN, for one that has none and for an id that does not exist.
Pins == {None, "1234", "0000"}
PinTargets == {2, 3, 4}

NextPin ==
  \/ LoginStartAlone("10.0.0.1", "admin", "wrongpw")
  \/ \E f \in BagToSet(inflight) : LoginThrow(f)
  \/ \E f \in BagToSet(inflight) : LoginGotUser(f)
  \/ \E f \in BagToSet(inflight) : LoginCompared(f)
  \/ \E c \in Cookies, userId \in PinTargets, pin \in Pins, dbOk \in BOOLEAN :
       Do(PostVerifyPin(c, NoToken, userId, pin, dbOk))
  \/ Sweep

SpecPin == InitSessions /\ [][NextPin]_vars

\* The life of a deployment from an empty database: the process is started
\* and restarted with any environment over a database that may be down, and
\* while it listens the administrator logs in, users are deleted and a
\* visitor signs up under the name 'admin' or 'alice'.
InitDeployment ==
  /\ users = <<>>
  /\ nextUserId = 1
  /\ settings = DefaultSettings
  /\ transactions = {}
  /\ nextTxId = 1
  /\ avatarFiles = [n \in AvatarNames |-> 0]
  /\ issued = {}
  /\ now = 0
  /\ loginAttempts = [ip \in Ips |-> 0]
  /\ inflight = EmptyBag
  /\ res = NoResponse
  /\ failedChecks = [ip \in Ips |-> 0]
  /\ proc = Process("down", FALSE, FALSE)
  /\ location = "/"
  /\ call = NoCall
  /\ currentUser = None

NextStartup ==
  \/ \E secret \in BOOLEAN, password \in BOOLEAN : Launch(secret, password)
  \/ \E dbOk \in BOOLEAN : StartServer(dbOk)
  \/ LoginStartAlone("10.0.0.1", "admin", "adminpw")
  \/ \E f \in BagToSet(inflight) : LoginThrow(f)
  \/ \E f \in BagToSet(inflight) : LoginGotUser(f)
  \/ \E f \in BagToSet(inflight) : LoginCompared(f)
  \/ \E f \in BagToSet(inflight) : LoginFinish(f)
  \/ \E c \in Jar, id \in {1, 2} : Do(DeleteUser(c, NoToken, id, TRUE))
  \/ \E username \in {"admin", "alice"} : Do(PostSignup(NewUser(username), TRUE))

SpecStartup == InitDeployment /\ [][NextStartup]_vars

\* Every route, called by the administrator and without a token, over a
\* store whose calls may throw: an outage on any call, a unique violation
\* on db.createUser, and uploads that multer turns away.
Callers == {NoToken, Session(1)}

NextFailure ==
  \/ \E username \in {"alice", "carol"}, ok \in BOOLEAN :
       Do(PostSignup(NewUser(username), ok))
  \/ \E c \in Callers, username \in {"alice", "carol"}, ok \in BOOLEAN :
       Do(PostUsers(c, NoToken, NewUser(username), ok))
  \/ \E c \in Callers, ok \in BOOLEAN :
       Do(PostVerifyPin(c, NoToken, 2, "1234", ok))
  \/ \E c \in Callers, ok \in BOOLEAN : Do(GetUsers(c, NoToken, ok))
  \/ \E c \in Callers, ok \in BOOLEAN : Do(DeleteUser(c, NoToken, 3, ok))
  \/ \E c \in Callers, ok \in BOOLEAN :
       Do(PatchStatus(c, NoToken, 2, Active, ok))
  \/ \E c \in Callers, ok \in BOOLEAN :
       Do(PatchBalance(c, NoToken, 2, 0, ok))
  \/ \E c \in Callers : Do(PostLogout(c, NoToken))
  \/ \E c \in Callers, ok \in BOOLEAN : Do(GetMe(c, NoToken, ok))
  \/ \E c \in Callers : Do(GetSession(c, NoToken))
  \/ \E c \in Callers, ok \in BOOLEAN :
       Do(PostTransactions(c, NoToken, OwnTransaction(2), ok))
  \/ \E c \in Callers, ok \in BOOLEAN : Do(GetTransactions(c, NoToken, ok))
  \/ \E c \in Callers, ok \in BOOLEAN :
       Do(DeleteTransaction(c, NoToken, 1, ok))
  \/ \E c \in Callers, ok \in BOOLEAN : Do(GetSettings(c, NoToken, ok))
  \/ \E c \in Callers, ok \in BOOLEAN :
       Do(PatchSettings(c, NoToken, NewSettings(TRUE), ok))
  \/ \E c \in Callers, ok \in BOOLEAN : Do(GetUser(c, NoToken, 2, ok))
  \/ \E c \in Callers, ok \in BOOLEAN :
       Do(GetUserTransactions(c, NoToken, 2, ok))
  \/ \E c \in Callers, file \in Uploads, ok \in BOOLEAN :
       Do(PatchAvatar(c, NoToken, 2, file, ok))
  \/ \E c \in Callers, ok \in BOOLEAN : Do(DeleteAvatar(c, NoToken, 2, ok))
  \/ LoginStartAlone("10.0.0.1", "admin", "adminpw")
  \/ \E f \in BagToSet(inflight) : LoginThrow(f)
  \/ \E f \in BagToSet(inflight) : LoginGotUser(f)
  \/ \E f \in BagToSet(inflight) : LoginCompared(f)
  \/ \E f \in BagToSet(inflight) : LoginFinish(f)

SpecFailure == InitSessions /\ [][NextFailure]_vars

\* POST /api/users as each server variant in the repository registers it:
\* the full server (the same route in both of its copies) and the minimal
\* server, over the same store.
NextVariants ==
  \/ \E c \in Cookies, body \in UserBodies, ok \in BOOLEAN :
       Do(PostUsers(c, NoToken, body, ok))
  \/ \E body \in UserBodies, ok \in BOOLEAN : Do(MinimalPostUsers(body, ok))

SpecVariants == InitSessions /\ [][NextVariants]_vars

\* The login limiter when the handlers of an address run one at a time: a
\* login arrives only when none is in flight, while the hourly sweep fires
\* whenever its timer is due, between two logins or while one is suspended
\* at an await.
NextSequential ==
  \/ \E ip \in RaceIps, b \in LoginBodies : LoginStartAlone(ip, b[1], b[2])
  \/ \E f \in BagToSet(inflight) : LoginThrow(f)
  \/ \E f \in BagToSet(inflight) : LoginGotUser(f)
  \/ \E f \in BagToSet(inflight) : LoginCompared(f)
  \/ \E f \in BagToSet(inflight) : LoginFinish(f)
  \/ Sweep

SpecSequential == Init /\ [][NextSequential]_vars

\* An address that runs into the limit: its logins, with the right and with
\* a wrong password, overlap freely.
BlockBodies == { <<"admin", "adminpw">>, <<"admin", "wrongpw">> }

NextBlocked ==
  \/ \E ip \in RaceIps, b \in BlockBodies : LoginStart(ip, b[1], b[2])
  \/ \E f \in BagToSet(inflight) : LoginThrow(f)
  \/ \E f \in BagToSet(inflight) : LoginGotUser(f)
  \/ \E f \in BagToSet(inflight) : LoginCompared(f)
  \/ \E f \in BagToSet(inflight) : LoginFinish(f)
  \/ Sweep

SpecBlocked == Init /\ [][NextBlocked]_vars

\* The same address guessing passwords only, while the sweep's timer keeps
\* firing: setInterval re-arms itself, so a due sweep is never put off
\* forever.
NextSwept ==
  \/ \E ip \in RaceIps : LoginStart(ip, "admin", "wrongpw")
  \/ \E f \in BagToSet(inflight) : LoginThrow(f)
  \/ \E f \in BagToSet(inflight) : LoginGotUser(f)
  \/ \E f \in BagToSet(inflight) : LoginCompared(f)
  \/ Sweep

SpecSweepFair == Init /\ [][NextSwept]_vars /\ WF_vars(Sweep)

\* Requests that carry a credential in the cookie, in the header, in both or
\* in neither, on a route open to every user and on one for administrators,
\* while the clock runs past the seed sessions' expiry; Renewed is the token
\* of the administrator's login at that hour, which is still good then.
Renewed == SignedAt(1, SeedUsers[1], MaxTime)
Presented == Credentials \cup {Renewed}

NextPrecedence ==
  \/ \E c \in Presented, h \in Presented : Do(GetMe(c, h, TRUE))
  \/ \E c \in Presented, h \in Presented : Do(GetUsers(c, h, TRUE))
  \/ \E c \in Presented, h \in Presented : Do(GetSession(c, h))
  \/ Tick

SpecPrecedence == InitSessions /\ [][NextPrecedence]_vars

\* POST /api/transactions with well-formed bodies and with bodies that fail
\* one or several of the four checks, sent by the administrator, by a
\* customer and without a token.
AnyTransactionBodies ==
  [user_id : {0, 2, 3}, type : {"Deposit", "Refund"}, amount : {-5, 0, 1},
   date_time : {"2024-05-01T10:00:00Z", "yesterday"}]

NextTransactions ==
  \/ \E c \in Cookies, body \in AnyTransactionBodies, ok \in BOOLEAN :
       Do(PostTransactions(c, NoToken, body, ok))
  \/ \E c \in Cookies : Do(DeleteTransaction(c, NoToken, 1, TRUE))

SpecTransactions == InitSessions /\ [][NextTransactions]_vars

\* POST /api/signup with the bodies of the registration form and with the
\* same bodies carrying is_admin: true, a field the form does not have.
SignupBodies == {[b EXCEPT !.is_admin = flag] : b \in UserBodies, flag \in BOOLEAN}

NextRegistration ==
  \/ \E body \in SignupBodies, ok \in BOOLEAN : Do(PostSignup(body, ok))
  \/ \E c \in Cookies, allow \in BOOLEAN :
       Do(PatchSettings(c, NoToken, NewSettings(allow), TRUE))

SpecRegistration == InitSessions /\ [][NextRegistration]_vars

\* PINs sent for alice, who has one, and for bob, who has none, by the
\* administrator, by alice, by bob and without a token, to the full server
\* and to the minimal one.
NextProbe ==
  \/ \E c \in Cookies \cup {Session(3)}, userId \in {2, 3},
        pin \in {"1234", "0000"}, ok \in BOOLEAN :
       Do(PostVerifyPin(c, NoToken, userId, pin, ok))
  \/ \E id \in {2, 3}, pin \in {"1234", "0000"}, ok \in BOOLEAN :
       Do(MinimalPostVerifyPin(id, pin, ok))

SpecProbe == InitSessions /\ [][NextProbe]_vars

\* Logins of one address, one at a time and with no sweep in between, for
\* the administrator, for an unknown user and for alice, whose account the
\* administrator switches between Active and Inactive.
NextUnchecked ==
  \/ \E ip \in RaceIps,
        b \in LoginBodies \cup {<<"alice", "alicepw">>, <<"alice", "wrongpw">>} :
       LoginStartAlone(ip, b[1], b[2])
  \/ \E f \in BagToSet(inflight) : LoginThrow(f)
  \/ \E f \in BagToSet(inflight) : LoginGotUser(f)
  \/ \E f \in BagToSet(inflight) : LoginCompared(f)
  \/ \E f \in BagToSet(inflight) : LoginFinish(f)
  \/ \E status \in Statuses :
       Do(PatchStatus(Session(1), NoToken, 2, status, TRUE))

SpecUnchecked == InitSessions /\ [][NextUnchecked]_vars

\* ------------------------------------------------------------ claims

\* C1 (as claimed): once five failed credential checks from an address have
\* been recorded with no successful login and no sweep since, the next
\* POST /api/login from that address is answered 429 and does not query the
\* store: no handler that arrived after the fifth failure is suspended at a
\* store call or a password compare, and none was answered anything but 429.
C1_SixthAttemptRejected ==
  /\ \A f \in BagToSet(inflight) : ~f.sawFive
  /\ res.route = LOGIN /\ res.sawFive => res.status = 429 /\ ~res.touched

\* C2 (as claimed): under any interleaving of the login handlers of one
\* address no increment is lost (the entry is never below the number of
\* failed checks since it was cleared) and at most five failed credential
\* checks are performed between two clears of the entry.
C2_CounterSafeUnderConcurrency ==
  \A ip \in Ips :
    /\ failedChecks[ip] <= MaxLoginAttempts
    /\ loginAttempts[ip] >= failedChecks[ip]

\* What user u owns: the row, the avatar files, the transactions.
OwnedBy(u) ==
  << IF u \in DOMAIN users THEN users[u] ELSE NoRow,
     [e \in Exts |-> avatarFiles[<<u, e>>]],
     dbGetUserTransactions(u) >>

OwnerRoutes ==
  { "GET /api/users/:id", "GET /api/users/:userId/transactions",
    "PATCH /api/users/:id/avatar", "DELETE /api/users/:id/avatar",
    "POST /api/transactions" }

\* The response r answers a request a verified non-admin token made on
\* another user's id.
OnAnother(r) ==
  /\ r.route \in OwnerRoutes
  /\ r.caller.kind = "jwt" /\ ~r.caller.isAdmin
  /\ r.target # r.caller.id

\* C5 (as claimed): a request of a non-admin on another user's id hands out
\* no user or transaction data and leaves what the other users own as it was,
\* and it is answered 403 (unless the body validators or the upload filter
\* refused it first); GET /api/transactions hands a non-admin only
\* transactions it owns.
C5_NoAccessToAnother ==
  [][ /\ OnAnother(res') =>
           /\ res'.userData = {} /\ res'.txData = {}
           /\ \A u \in UserIds \ {res'.caller.id} : OwnedBy(u)' = OwnedBy(u)
           /\ res'.status \in {403, 400, 500}
           /\ res'.status = 400 => res'.route = "POST /api/transactions"
           /\ res'.status = 500 => res'.route = "PATCH /api/users/:id/avatar"
      /\ ( /\ res'.route = "GET /api/transactions"
           /\ res'.caller.kind = "jwt" /\ ~res'.caller.isAdmin )
         => \A t \in res'.txData : t.user_id = res'.caller.id
    ]_vars

\* The response r answers a request a verified non-admin token made on its
\* own id, with an accepted file where the route takes one, and no store
\* call threw.
OnOwn(r) ==
  /\ r.route \in OwnerRoutes \ {"POST /api/transactions"}
  /\ r.caller.kind = "jwt" /\ ~r.caller.isAdmin
  /\ r.target = r.caller.id
  /\ ~r.outage

\* The avatar request that r answers carried a file the upload accepts.
WithAcceptedFile(r) ==
  r.route = "PATCH /api/users/:id/avatar" =>
    r.status # 500 /\ r.message # "Avatar file is required"

\* C6: a non-admin acting on its own id, the user existing and the input
\* valid, is never answered 403 and is answered 2xx (the store answering),
\* and the request acts on that user: the profile returned is the caller's,
\* the transactions returned are the caller's.
C6_OwnIdSucceeds ==
  (OnOwn(res) /\ WithAcceptedFile(res) /\ res.target \in DOMAIN users) =>
    /\ res.status = 200
    /\ res.route = "GET /api/users/:id" => res.userData = {res.caller.id}
    /\ \A t \in res.txData : t.user_id = res.caller.id

\* A customer has read its profile, and has replaced its avatar.
C6_Witness ==
  /\ OnOwn(res) /\ res.status = 200
  /\ res.route = "PATCH /api/users/:id/avatar"
  /\ users[res.target].avatar \in Exts
  /\ avatarFiles[<<res.target, users[res.target].avatar>>] = res.caller.id


\* Token t passes jwt.verify at time at: it is a JWT, the signature is the
\* server's, and its expiry lies ahead.
Verifies(t, at) == t.kind = "jwt" /\ t.signed /\ at < t.exp

GuardedRoutes ==
  { "POST /api/users", "POST /api/users/:userId/verify-pin", "GET /api/users",
    "DELETE /api/users/:id", "PATCH /api/users/:id/status",
    "PATCH /api/users/:id/balance", "POST /api/logout", "GET /api/me",
    "GET /api/session", "POST /api/transactions", "GET /api/transactions",
    "DELETE /api/transactions/:id", "GET /api/settings", "PATCH /api/settings",
    "GET /api/users/:id", "GET /api/users/:userId/transactions",
    "PATCH /api/users/:id/avatar", "DELETE /api/users/:id/avatar" }

\* C3: on a guarded route the handler body runs only for a request that
\* carried a token passing signature and expiry verification, and it runs as
\* that token's user; a request with no token in the cookie and none in the
\* header is answered 401, its handler does not run, and the store is as it
\* was.
C3_HandlerOnlyBehindVerifiedToken ==
  [][ res'.route \in GuardedRoutes =>
        /\ res'.ran =>
             /\ res'.caller \in {res'.cookie, res'.header}
             /\ Verifies(res'.caller, res'.at)
        /\ (res'.cookie = NoToken /\ res'.header = NoToken) =>
             /\ res'.status = 401
             /\ ~res'.ran /\ ~res'.touched
             /\ store' = store
    ]_vars

\* An expired session was turned away after the administrator, while the
\* session was good, had changed the store.
C3_Witness ==
  /\ res.route = "PATCH /api/users/:id/balance"
  /\ res.cookie = Session(1) /\ ~Verifies(res.cookie, res.at)
  /\ ~res.ran
  /\ users[2].balance = 50

\* The token the middleware looked at and turned away.
Refused(r) ==
  LET t == IF r.cookie # NoToken THEN r.cookie ELSE r.header
  IN [token |-> t,
      failed |-> t # NoToken /\ ~Verifies(t, r.at),
      expired |-> t.kind = "jwt" /\ t.signed /\ r.at >= t.exp]

\* C4: a token that fails verification is answered 403; the message is
\* 'Token expired. Please log in again.' exactly when a token with a good
\* signature is past its expiry and 'Invalid token.' for every tampered or
\* malformed one, and neither message comes with a 401.
C4_FailureMessages ==
  res.route \in GuardedRoutes =>
    /\ Refused(res).failed => res.status = 403 /\ ~res.ran
    /\ res.message = "Token expired. Please log in again."
         <=> Refused(res).expired
    /\ res.message = "Invalid token."
         <=> (Refused(res).failed /\ ~Refused(res).expired)
    /\ res.message \in {"Token expired. Please log in again.",
                        "Invalid token."} => res.status = 403

\* A forged token past the expiry it names was called invalid, not expired.
C4_Witness ==
  /\ res.route \in GuardedRoutes
  /\ Refused(res).token = Forged /\ res.at >= Forged.exp
  /\ res.message = "Invalid token."

AdminRoutes ==
  { "DELETE /api/users/:id", "PATCH /api/users/:id/status",
    "PATCH /api/users/:id/balance", "DELETE /api/transactions/:id",
    "PATCH /api/settings" }

\* C7: a step that changes a user's status or balance or the settings, or
\* removes a user or a transaction, is a request on one of the admin routes
\* whose verified token has isAdmin = true; such a request from a verified
\* non-admin token is answered 403 and leaves the store as it was.
C7_AdminOnlyMutations ==
  [][ /\ ( \/ \E u \in DOMAIN users \cap DOMAIN users' :
                \/ users'[u].status # users[u].status
                \/ users'[u].balance # users[u].balance
           \/ settings' # settings
           \/ DOMAIN users \ DOMAIN users' # {}
           \/ transactions \ transactions' # {} )
         => /\ res'.route \in AdminRoutes
            /\ Verifies(res'.caller, res'.at) /\ res'.caller.isAdmin
      /\ ( /\ res'.route \in AdminRoutes
           /\ Verifies(res'.caller, res'.at) /\ ~res'.caller.isAdmin )
         => res'.status = 403 /\ store' = store
    ]_vars

\* A customer was refused a balance change the administrator had made
\* before.
C7_Witness ==
  /\ res.route = "PATCH /api/users/:id/balance"
  /\ res.caller = Session(2) /\ res.status = 403
  /\ res.target \in DOMAIN users
  /\ users[res.target].balance = 50

\* C8 (as claimed): with allowNewUsers = false every POST /api/signup is
\* answered 403 and creates no user, the payload valid or not (the store
\* answering).
C8_SignupClosedAlways403 ==
  [][ ( /\ res'.route = "POST /api/signup"
        /\ settings.allowNewUsers = FALSE /\ ~res'.outage )
      => res'.status = 403 /\ users' = users
    ]_vars

\* C8 (amended): with allowNewUsers = false no POST /api/signup creates a
\* user; a payload that passes the field validators is answered 403, and one
\* that fails them is answered 400 'Validation failed' before the settings
\* are read.
C8_SignupClosed ==
  [][ ( /\ res'.route = "POST /api/signup"
        /\ settings.allowNewUsers = FALSE )
      => /\ users' = users /\ nextUserId' = nextUserId
         /\ res'.invalid =>
              res'.status = 400 /\ res'.message = "Validation failed"
         /\ (~res'.invalid /\ ~res'.outage) =>
              res'.status = 403 /\ res'.message = "Registrations are disabled."
    ]_vars

\* A valid signup was turned away while registrations were disabled.
C8_Witness ==
  /\ res.route = "POST /api/signup"
  /\ settings.allowNewUsers = FALSE
  /\ ~res.invalid /\ ~res.duplicate /\ res.status = 403

CreateRoutes == {"POST /api/signup", "POST /api/users"}

\* C9: a request that reaches db.createUser on POST /api/signup or POST
\* /api/users with a username or an email some user already has is answered
\* 400 'Username or email already exists', not 500, and the users are as
\* they were.
C9_DuplicateIs400 ==
  [][ ( /\ res'.route \in CreateRoutes
        /\ res'.duplicate /\ ~res'.invalid /\ ~res'.outage
        /\ res'.route = "POST /api/signup" => settings.allowNewUsers # FALSE
        /\ res'.route = "POST /api/users" =>
             Verifies(res'.caller, res'.at) /\ res'.caller.isAdmin )
      => /\ res'.status = 400
         /\ res'.message = "Username or email already exists"
         /\ users' = users /\ nextUserId' = nextUserId
    ]_vars

\* A signup was refused for a name that an earlier signup had taken.
C9_Witness ==
  /\ res.route = "POST /api/signup"
  /\ res.duplicate /\ res.status = 400
  /\ res.message = "Username or email already exists"
  /\ MaxUserId \in DOMAIN users

\* C10 (as claimed): PATCH /api/users/:id/balance with a negative balance
\* is answered 400 for an admin and for a non-admin caller alike, and the
\* stored balances are as they were.
C10_NegativeBalance400AnyRole ==
  [][ ( /\ res'.route = "PATCH /api/users/:id/balance"
        /\ res'.value < 0
        /\ Verifies(res'.caller, res'.at) )
      => res'.status = 400 /\ users' = users
    ]_vars

\* C10 (amended): PATCH /api/users/:id/balance with a negative balance
\* leaves the stored balances as they were; it is answered 400 for an admin
\* caller and 403 'Admin access required' for a non-admin caller.
C10_NegativeBalanceRefused ==
  [][ ( /\ res'.route = "PATCH /api/users/:id/balance"
        /\ res'.value < 0
        /\ Verifies(res'.caller, res'.at) )
      => /\ users' = users
         /\ res'.caller.isAdmin =>
              res'.status = 400 /\ res'.message = "Validation failed"
         /\ ~res'.caller.isAdmin =>
              res'.status = 403 /\ res'.message = "Admin access required"
    ]_vars

\* The administrator was refused a negative balance for a user whose
\* balance an earlier request had set.
C10_Witness ==
  /\ res.route = "PATCH /api/users/:id/balance"
  /\ res.value < 0 /\ res.caller.isAdmin
  /\ res.status = 400
  /\ res.target \in DOMAIN users
  /\ users[res.target].balance = 50


\* C11: a POST /api/login answered 200 for user u and followed at once by
\* GET /api/me with the cookie that login set returns the user whose id is
\* u's, the id the login authenticated and the token carries.
C11_MeIsTheUserLoggedIn ==
  [][ ( /\ res.route = LOGIN /\ res.status = 200
        /\ res'.route = "GET /api/me" /\ res'.at = res.at
        /\ res'.cookie = res.setCookie /\ res'.header = NoToken )
      => /\ res'.status = 200
         /\ res'.userData = {res.target}
         /\ res'.caller.id = res.target
         /\ users[res.target].username = res.setCookie.username
    ]_vars

\* alice read her profile with the cookie of a login of the same hour, an
\* hour after the sessions of the initial state were opened.
C11_Witness ==
  /\ res.route = "GET /api/me" /\ res.status = 200
  /\ res.cookie \in issued /\ res.cookie.username = "alice"
  /\ res.at = 1 /\ res.at + ExpiresIn = res.cookie.exp
  /\ res.userData = {dbGetUserByUsername("alice")}

\* C12 (as claimed): no request is authenticated as a user whose stored
\* status is Inactive: the handler of a guarded route does not run as such a
\* user, and a POST /api/login for such a user is answered 403 and sets no
\* cookie.
C12_InactiveNeverAuthenticated ==
  [][ /\ ( /\ res'.route \in GuardedRoutes /\ res'.ran
           /\ res'.caller.id \in DOMAIN users )
         => users[res'.caller.id].status # Inactive
      /\ ( /\ res'.route = LOGIN /\ res'.target \in DOMAIN users
           /\ users[res'.target].status = Inactive )
         => res'.status = 403 /\ res'.setCookie = NoToken
    ]_vars

\* C13: a login issues a token that expires one hour later; a request that
\* carries an issued token before its hour has passed is admitted as that
\* token's user, also when the client has logged out with it before, and
\* once the hour has passed it is refused as expired.
C13_OnlyExpiryInvalidates ==
  [][ /\ (res'.route = LOGIN /\ res'.status = 200) =>
           /\ res'.setCookie \in issued'
           /\ res'.setCookie.exp = res'.at + ExpiresIn
      /\ (res'.route \in GuardedRoutes /\ res'.cookie \in issued) =>
           /\ res'.at < res'.cookie.exp =>
                res'.ran /\ res'.caller = res'.cookie
           /\ res'.at >= res'.cookie.exp =>
                /\ ~res'.ran /\ res'.status = 403
                /\ res'.message = "Token expired. Please log in again."
    ]_vars

\* A profile was read with a token after a logout with that token.
C13_Witness ==
  /\ res.route = "GET /api/me" /\ res.status = 200
  /\ res.afterLogout
  /\ res.cookie \in issued \ OpenSessions /\ res.at < res.cookie.exp


\* C14 (as claimed): a client call that is answered 401 while the browser
\* is not on /login leaves the browser on /login, whatever the method.
C14_RedirectOn401 ==
  [][ ( /\ call'.turn # call.turn
        /\ call'.status = 401 /\ location # "/login" )
      => location' = "/login"
    ]_vars

\* The body POST /api/signup answers 201 with: { data: { ... } }.
SignupEnvelope == "data"

\* C15 (as claimed): a method that returns a User resolves for a 2xx
\* response that carries the user as { data: user }, as { user: user } or
\* bare; a signup the server answered 201 resolves.
C15_EnvelopesNormalized ==
  [][ /\ ( /\ call'.turn # call.turn
           /\ call'.method \in UserMethods
           /\ call'.status \in Successes /\ call'.shape \in Shapes )
         => call'.settled = "resolved"
      /\ ( /\ call'.turn # call.turn
           /\ call'.method = "users.create(signup)"
           /\ call'.status = 201 /\ call'.shape = SignupEnvelope )
         => call'.settled = "resolved"
    ]_vars

\* C16: PIN verification is not attempt-limited. A verify-pin request never
\* reads or writes loginAttempts and is never answered 429, and however many
\* wrong PINs came before, a request that reaches the comparison answers
\* valid: true exactly when the PIN sent is the one whose hash is stored.
C16_PinNeverLimited ==
  [][res'.route = VERIFY_PIN /\ res' # res
       => /\ loginAttempts' = loginAttempts
          /\ res'.status # 429
          /\ res'.status \in {401, 403}
               <=> jwtVerify(SelectToken(res'.cookie, res'.header)) # "ok"
          /\ res'.status = 200
               <=> /\ jwtVerify(SelectToken(res'.cookie, res'.header)) = "ok"
                   /\ res'.pin # None
                   /\ ~res'.outage
                   /\ res'.target \in DOMAIN users
                   /\ users[res'.target].pin # bcryptHash(None)
          /\ res'.status = 200
               => (res'.message = "valid: true"
                     <=> users[res'.target].pin = bcryptHash(res'.pin))]_vars

\* The right PIN is answered valid: true after MaxWrongPins wrong ones, while
\* the sender's address is locked out of the login.
C16_Witness ==
  /\ res.route = VERIFY_PIN
  /\ res.status = 200
  /\ res.message = "valid: true"
  /\ res.wrongPins = MaxWrongPins
  /\ res.wrongPins > MaxLoginAttempts
  /\ loginAttempts["10.0.0.1"] >= MaxLoginAttempts

\* C17: the server never accepts requests without its configuration. A
\* process started without JWT_SECRET exits and never starts or listens; a
\* start that finds no user 'admin' and has no ADMIN_PASSWORD exits; requests
\* are answered only while the process listens; and when app.listen is
\* called a user 'admin' with the administrator flag is in the store.
C17_ListensOnlyConfigured ==
  [][/\ ~proc'.JWT_SECRET => proc'.phase \in {"down", "exited"}
     /\ proc.phase = "starting" /\ proc' # proc
          /\ dbGetUserByUsername("admin") = 0 /\ ~proc.ADMIN_PASSWORD
          => proc'.phase = "exited"
     /\ res' # res => proc.phase = "listening" /\ proc.JWT_SECRET
     /\ proc.phase = "starting" /\ proc'.phase = "listening"
          => HasAdmin(users') /\ proc'.adminAtListen]_vars

\* C18, as stated: every request is answered once and the process goes on
\* listening; a store call that throws inside a handler is answered 500,
\* and an upload that multer turns away is answered 500 by the error
\* middleware.
C18_EveryThrowIs500 ==
  [][res' # res
       => /\ res'.status # 0
          /\ proc' = proc /\ proc.phase = "listening"
          /\ res'.threw => res'.status = 500
          /\ ( /\ res'.file \in {TextFile, BigFile}
               /\ Verifies(SelectToken(res'.cookie, res'.header), res'.at) )
               => /\ res'.status = 500
                  /\ res'.message = "An unexpected error occurred"
                  /\ ~res'.ran]_vars

\* C18, amended: the same, except that a unique violation thrown by
\* db.createUser on the two routes that create users is answered 400
\* 'Username or email already exists'; every other throw is answered 500 by
\* the handler's own catch block.
C18_EveryFailureAnswered ==
  [][res' # res
       => /\ res'.status # 0
          /\ proc' = proc /\ proc.phase = "listening"
          /\ BagCardinality(inflight') < BagCardinality(inflight)
               <=> res'.route = LOGIN
          /\ res'.threw /\ res'.outage
               => /\ res'.status = 500
                  /\ res'.message # "An unexpected error occurred"
          /\ res'.threw /\ ~res'.outage
               => /\ res'.route \in CreateRoutes /\ res'.duplicate
                  /\ res'.status = 400
                  /\ res'.message = "Username or email already exists"
          /\ ( /\ res'.file \in {TextFile, BigFile}
               /\ Verifies(SelectToken(res'.cookie, res'.header), res'.at) )
               => /\ res'.status = 500
                  /\ res'.message = "An unexpected error occurred"
                  /\ ~res'.ran]_vars

\* The store failed under a handler that had an accepted upload on disk, and
\* the handler answered 500; the process listens on.
C18_Witness ==
  /\ res.route = "PATCH /api/users/:id/avatar"
  /\ res.file \in Exts
  /\ res.threw /\ res.outage
  /\ res.status = 500
  /\ res.message = "Server error updating avatar"
  /\ proc.phase = "listening"

\* C19: in every server variant POST /api/users adds a user only for a
\* caller whose token verifies and carries the administrator flag.
C19_OnlyAdminCreates ==
  [][res'.route = "POST /api/users" /\ DOMAIN users' # DOMAIN users
       => /\ Verifies(SelectToken(res'.cookie, res'.header), res'.at)
          /\ SelectToken(res'.cookie, res'.header).isAdmin]_vars

\* C20: with the login handlers run one at a time, the entry of an address
\* is the number of failed credential checks (401) since its latest
\* successful login or the latest sweep, capped at five: a 401 adds one to
\* the entry, a 200 leaves it removed, and it never exceeds five.
C20_CounterCountsFailures ==
  [][\A ip \in RaceIps :
       /\ loginAttempts'[ip] <= MaxLoginAttempts
       /\ loginAttempts'[ip] = IF failedChecks'[ip] < MaxLoginAttempts
                               THEN failedChecks'[ip] ELSE MaxLoginAttempts
       /\ res' # res /\ res'.route = LOGIN /\ res'.ip = ip /\ res'.status = 401
            => loginAttempts'[ip] = loginAttempts[ip] + 1
       /\ res' # res /\ res'.route = LOGIN /\ res'.ip = ip /\ res'.status = 200
            => loginAttempts'[ip] = 0]_vars

\* C21: no address is blocked forever. Whenever the entry of an address is
\* at the limit (its logins are answered 429), the sweep, whose timer fires
\* again and again, empties the map, and the entry is below the limit again:
\* the next login of the address is evaluated against the store.
C21_BlockedEventuallyFree ==
  \A ip \in RaceIps :
    (loginAttempts[ip] >= MaxLoginAttempts) ~> (loginAttempts[ip] = 0)

\* The address was answered 429 and the map has been emptied since.
C21_Witness ==
  /\ res.route = LOGIN /\ res.status = 429
  /\ res.sawFive
  /\ loginAttempts[res.ip] = 0

\* C22: once the entry of an address has reached the limit, nothing but the
\* sweep lowers or removes it, whatever handlers of the address are still in
\* flight, and every login that arrives from the address before the sweep is
\* answered 429.
C22_BlockedUntilSweep ==
  [][\A ip \in RaceIps :
       loginAttempts[ip] >= MaxLoginAttempts
         => /\ \/ loginAttempts'[ip] >= loginAttempts[ip]
               \/ /\ loginAttempts' = [a \in Ips |-> 0]
                  /\ UNCHANGED <<inflight, res>>
            /\ ( /\ res' # res /\ res'.route = LOGIN /\ res'.ip = ip
                 /\ inflight' = inflight )
                 => res'.status = 429]_vars

\* C23: the cookie comes first. A request that carries a cookie token is
\* decided by that token alone, whatever the header holds: the handler runs,
\* as the cookie's user, exactly when the cookie token verifies, and a
\* cookie token that fails is answered 403 even beside a valid header token.
\* The header token decides only when there is no cookie token.
C23_CookieBeforeHeader ==
  [][res' # res /\ res'.route \in GuardedRoutes
       => LET t == IF res'.cookie # NoToken THEN res'.cookie ELSE res'.header
          IN /\ res'.ran <=> Verifies(t, res'.at)
             /\ res'.ran => res'.caller = t
             /\ res'.route = "GET /api/me" /\ res'.ran
                  => res'.userData = {t.id}
             /\ res'.route = "GET /api/users"
                  => (res'.status = 200 <=> Verifies(t, res'.at) /\ t.isAdmin)
             /\ t # NoToken /\ ~Verifies(t, res'.at) => res'.status = 403
             /\ t = NoToken => res'.status = 401]_vars

\* An expired cookie token beside the administrator's valid header token is
\* answered 403.
C23_Witness ==
  /\ res.route = "GET /api/users"
  /\ res.cookie = Session(2) /\ ~Verifies(res.cookie, res.at)
  /\ res.header.isAdmin /\ Verifies(res.header, res.at)
  /\ res.status = 403 /\ ~res.ran
  /\ res.message = "Token expired. Please log in again."

\* A transaction, or a request body, with an owner, a type of the
\* enumeration, an amount of at least one cent and an ISO-8601 timestamp.
WellFormed(t) ==
  /\ t.user_id # 0
  /\ t.type \in {"Deposit", "Withdrawal", "Transfer", "Bill Pay"}
  /\ t.amount >= 1
  /\ t.date_time = "2024-05-01T10:00:00Z"

\* C24: every transaction stored through POST /api/transactions is well
\* formed, and a request of an authenticated caller, administrator or not,
\* whose body is not is answered 400 and stores nothing.
C24_StoredTransactionsWellFormed ==
  [][/\ \A t \in transactions' : WellFormed(t)
     /\ ( /\ res' # res /\ res'.route = "POST /api/transactions"
          /\ Verifies(IF res'.cookie # NoToken THEN res'.cookie
                       ELSE res'.header, res'.at)
          /\ ~WellFormed(res'.body) )
          => /\ res'.status = 400
             /\ transactions' = transactions]_vars

\* A customer's transaction with an amount of zero was refused while a
\* transaction is in the store.
C24_Witness ==
  /\ res.route = "POST /api/transactions"
  /\ res.status = 400
  /\ ~res.caller.isAdmin /\ res.caller.id = 2
  /\ res.body.amount = 0 /\ res.body.user_id = 2
  /\ res.body.type = "Deposit" /\ res.body.date_time # "yesterday"
  /\ transactions # {}

\* C25: once a call of logout() has settled, currentUser is null, whether
\* the server's logout call resolved or rejected; and currentUser becomes
\* non-null only by a login() or a getCurrentUser() that resolved.
C25_NullAfterLogout ==
  [][/\ call'.turn # call.turn /\ call'.method = "auth.logout"
          => currentUser' = None
     /\ currentUser = None /\ currentUser' # None
          => /\ call'.method \in {"auth.login", "auth.getCurrentUser"}
             /\ call'.settled = "resolved"]_vars

\* C26: a PATCH /api/users/:id/avatar answered 403 leaves the avatar
\* reference of user :id in the store and the avatar file that reference
\* names on disk as they were.
C26_RefusedUploadChangesNothing ==
  [][( /\ res' # res /\ res'.route = "PATCH /api/users/:id/avatar"
       /\ res'.status = 403 /\ res'.ran
       /\ res'.target \in DOMAIN users
       /\ users[res'.target].avatar \in Exts )
       => /\ users'[res'.target].avatar = users[res'.target].avatar
          /\ avatarFiles'[<<res'.target, users[res'.target].avatar>>]
               = avatarFiles[<<res'.target, users[res'.target].avatar>>]]_vars

\* C27: a user created through POST /api/signup never carries the
\* administrator flag, whatever fields the request body holds.
C27_SignupNeverAdmin ==
  [][res'.route = "POST /api/signup"
       => \A i \in DOMAIN users' \ DOMAIN users : ~users'[i].is_admin]_vars

\* C28: in every server variant, whether a candidate PIN is the PIN of
\* user :userId is revealed only to that user and to an administrator: any
\* other caller is answered 403 and is not told.
C28_PinRevealedToOwnerOrAdmin ==
  [][res' # res /\ res'.route = VERIFY_PIN /\ ~res'.outage
       => LET t == IF res'.cookie # NoToken THEN res'.cookie ELSE res'.header
              entitled == Verifies(t, res'.at)
                            /\ (t.isAdmin \/ t.id = res'.target)
          IN /\ res'.message \in {"valid: true", "valid: false",
                                   "success: true", "Incorrect PIN"}
                  => entitled
             /\ Verifies(t, res'.at) /\ ~entitled => res'.status = 403]_vars

AnsweredFrom(pc) == \E f \in BagToSet(inflight) : f.pc = pc

AuthIsLoggedIn(cookie) ==
  LET o == GetSession(cookie, NoToken)
      status == o.res.status
      shape == SessionBody(status)
  IN /\ proc.phase = "listening"
     /\ res' = o.res
     /\ call' = [Settle("auth.isLoggedIn", status, shape)
                  EXCEPT !.settled = "resolved", !.error = None,
                         !.value = isLoggedIn(status, shape)]
     /\ location' = IF validateStatus(status) THEN location
                    ELSE interceptor(status)
     /\ UNCHANGED <<store, issued, now, loginAttempts, inflight,
                    failedChecks, proc, currentUser>>

\* The session check of the browser: auth.isLoggedIn is called with no
\* cookie, with a cookie that does not verify and with the cookies of the
\* seed sessions, before and after they expire, from any view.
NextCheck ==
  \/ \E c \in Presented : AuthIsLoggedIn(c)
  \/ \E path \in Paths : Navigate(path)
  \/ Tick

SpecCheck == InitSessions /\ [][NextCheck]_vars

\* C30: auth.isLoggedIn() resolves to true exactly when the server accepted
\* the credential of the request (GET /api/session answered 200).
C30_TrueWhenAccepted ==
  call.method = "auth.isLoggedIn"
    => (call.value <=> res.route = "GET /api/session" /\ res.status = 200)
====
